---- MODULE Spec2Model ----
(***************************************************************************)
(* Model of the pandas array backend of pandera:                           *)
(* ArraySchemaBackend / SeriesSchemaBackend in                             *)
(* src/pandera/backends/pandas/array.py.                                   *)
(*                                                                         *)
(* One call of validate(check_obj, schema, head, tail, sample,             *)
(* random_state, lazy, inplace) is followed statement by statement: pc is  *)
(* the position inside validate, every other variable is a local of the   *)
(* call, the caller's object, or the SchemaErrorHandler.                   *)
(***************************************************************************)
EXTENDS Integers, Sequences, FiniteSets, TLC

VARIABLES
    schema,         \* the schema: name, dtype, nullable, unique, report_duplicates, coerce, checks
    opts,           \* head, tail, sample, random_state, lazy, inplace
    caller_obj,     \* the object the caller passed to validate
    check_obj,      \* validate's local check_obj
    aliased,        \* TRUE iff check_obj is the very object the caller passed
    handler,        \* error_handler: [lazy, collected_errors]
    field_sub,      \* field_obj_subsample
    check_sub,      \* check_obj_subsample
    core_idx,       \* position in the loop over the core checks (1..4)
    check_idx,      \* position in run_checks' loop over schema.checks
    check_results,  \* run_checks' local check_results
    trace,          \* the steps executed so far, in order
    pc,             \* position in validate
    outcome,        \* "running", "returned", "SchemaError", "SchemaErrors", "AttributeError"
    raised,         \* the exception that left validate, if any
    result          \* the last CoreCheckResult produced

vars == <<schema, opts, caller_obj, check_obj, aliased, handler, field_sub,
          check_sub, core_idx, check_idx, check_results, trace, pc, outcome,
          raised, result>>

-----------------------------------------------------------------------------
(* Bounds of the model. *)

MaxLen == 2          \* rows of a column in the validate specification
MaxChecks == 2       \* declared checks of a schema
MaxCoreLen == 4      \* rows of a column in the core-check specification

(* Values of a cell: NA is a null, "1" and "2" are integers, StrA is the  *)
(* string "a" (not an integer, not parseable as one).                      *)
NA == "NaN"
StrA == "a"
Ints == {"1", "2"}
CoreVals == {NA, "1", "2", StrA}

(* None for the optional integer options. *)
NONE == -1
SubN == 1            \* the N used for head / tail / sample
Seed == 7            \* the random_state used when one is given

-----------------------------------------------------------------------------
(* Data objects.  A column is a sequence of rows, each with its index      *)
(* label and its value, plus the column's name, dtype and the schema       *)
(* attached to it through the "pandera" accessor.                          *)

RowsOf(vals) == [i \in 1..Len(vals) |-> [index |-> i - 1, val |-> vals[i]]]

SeqsUpTo(S, n) == UNION {[1..k -> S] : k \in 0..n}

AllInts(vals) == \A i \in 1..Len(vals) : vals[i] \in Ints

Dtypes(vals) == IF AllInts(vals) THEN {"int64", "object"} ELSE {"object"}

MkObj(vals, dtype) ==
    [rows |-> RowsOf(vals), name |-> "col", dtype |-> dtype, attached |-> "None"]

IndexSet(rows) == {rows[i].index : i \in 1..Len(rows)}

NoFC == [kind |-> "none", rows |-> <<>>, scalar |-> ""]

-----------------------------------------------------------------------------
(* Collaborators of the backend that validate calls. *)

(* error_formatters.scalar_failure_case: one synthetic failure case. *)
scalar_failure_case(x) == [kind |-> "scalar", rows |-> <<>>, scalar |-> x]

(* error_formatters.reshape_failure_cases: the failing rows as a table of  *)
(* (index, failure_case); rows whose value is null are dropped when        *)
(* ignore_na is set, which is the default.                                 *)
reshape_failure_cases(rows, ignore_na) ==
    [kind |-> "rows",
     rows |-> IF ignore_na THEN SelectSeq(rows, LAMBDA r : r.val # NA) ELSE rows,
     scalar |-> ""]

(* utils.convert_uniquesettings: report_duplicates to the keep argument   *)
(* of duplicated(); "all" keeps no occurrence (keep=False).                *)
convert_uniquesettings(report_duplicates) ==
    CASE report_duplicates = "exclude_first" -> "first"
      [] report_duplicates = "exclude_last" -> "last"
      [] report_duplicates = "all" -> "False"

(* pandas Series.duplicated(keep): the positions marked as duplicates.     *)
(* Nulls are equal to one another.                                         *)
duplicated(rows, keep) ==
    [i \in 1..Len(rows) |->
        CASE keep = "first" -> \E j \in 1..(i - 1) : rows[j].val = rows[i].val
          [] keep = "last" -> \E j \in (i + 1)..Len(rows) : rows[j].val = rows[i].val
          [] keep = "False" -> \E j \in 1..Len(rows) : j # i /\ rows[j].val = rows[i].val]

(* check_obj[mask]: the rows at the positions where the mask is true. *)
RECURSIVE Masked(_, _, _)
Masked(rows, mask, i) ==
    IF i > Len(rows) THEN <<>>
    ELSE (IF mask[i] THEN <<rows[i]>> ELSE <<>>) \o Masked(rows, mask, i + 1)

AnyTrue(mask) == \E i \in DOMAIN mask : mask[i]
AllTrue(mask) == \A i \in DOMAIN mask : mask[i]

(* The type engine.  A schema dtype is "None", "int64" (its check returns  *)
(* one boolean for the whole column) or "elem" (its check returns a        *)
(* per-element mask: the element is an integer).                           *)
dtype_check_is_bool(dtype) == dtype = "int64"

dtype_check_bool(dtype, obj) == obj.dtype = "int64"

dtype_check_mask(dtype, obj) ==
    [i \in 1..Len(obj.rows) |-> obj.rows[i].val \in Ints]

(* dtype.try_coerce: the rows that cannot be converted; empty on success. *)
coerce_failures(obj) == SelectSeq(obj.rows, LAMBDA r : r.val \notin Ints)

(* dtype.try_coerce on success: a new object of the schema's dtype. *)
try_coerce(dtype, obj) ==
    [obj EXCEPT !.dtype = IF dtype = "int64" THEN "int64" ELSE "object"]

(* The reason code of a SchemaError constructed without one. *)
DefaultReasonCode == "None"

SchemaError(reason_code, check, failure_cases, check_index) ==
    [cls |-> "SchemaError", reason_code |-> reason_code, check |-> check,
     failure_cases |-> failure_cases, check_index |-> check_index]

NoError == [cls |-> "None", reason_code |-> "None", check |-> "None",
            failure_cases |-> NoFC, check_index |-> NONE]

(* SchemaErrorHandler.collect_error: eager raises the error at once, lazy  *)
(* appends it to collected_errors under the reason code it is given.       *)
collect_error(h, reason_code, err) ==
    IF h.lazy
    THEN [handler |-> [h EXCEPT !.collected_errors =
                          Append(@, [reason_code |-> reason_code, error |-> err])],
          raises |-> FALSE]
    ELSE [handler |-> h, raises |-> TRUE]

(* PandasSchemaBackend.subsample: head rows, tail rows and sampled rows,   *)
(* concatenated, rows with an already seen index dropped.                  *)
head(rows, n) == SubSeq(rows, 1, IF n < Len(rows) THEN n ELSE Len(rows))
tail(rows, n) == SubSeq(rows, IF n < Len(rows) THEN Len(rows) - n + 1 ELSE 1, Len(rows))

(* sample(n, random_state=s): the rows a seeded generator picks. *)
seeded_sample(rows, n, s) ==
    LET start == s % (Len(rows) - n + 1) IN SubSeq(rows, start + 1, start + n)

(* sample(n) with no random_state: any n distinct rows, in any order. *)
unseeded_samples(rows, n) ==
    {[i \in 1..n |-> rows[f[i]]] :
        f \in {g \in [1..n -> 1..Len(rows)] :
                  \A a, b \in 1..n : a # b => g[a] # g[b]}}

RECURSIVE DropDupIndex(_, _)
DropDupIndex(rows, seen) ==
    IF rows = <<>> THEN <<>>
    ELSE IF Head(rows).index \in seen THEN DropDupIndex(Tail(rows), seen)
    ELSE <<Head(rows)>> \o DropDupIndex(Tail(rows), seen \cup {Head(rows).index})

(* The set of results one call of subsample may give. *)
subsample(obj, o) ==
    IF o.head = NONE /\ o.tail = NONE /\ o.sample = NONE THEN {obj}
    ELSE LET h == IF o.head = NONE THEN <<>> ELSE head(obj.rows, o.head)
             t == IF o.tail = NONE THEN <<>> ELSE tail(obj.rows, o.tail)
             S == IF o.sample = NONE THEN {<<>>}
                  ELSE IF o.random_state = NONE THEN unseeded_samples(obj.rows, o.sample)
                  ELSE {seeded_sample(obj.rows, o.sample, o.random_state)}
         IN {[obj EXCEPT !.rows = DropDupIndex(h \o t \o s, {})] : s \in S}

-----------------------------------------------------------------------------
(* The core checks: each returns a CoreCheckResult. *)

CoreCheckResult(check, reason_code, passed, failure_cases) ==
    [check |-> check, reason_code |-> reason_code, passed |-> passed,
     failure_cases |-> failure_cases]

(* preprocess that hands back the caller's object without copying. *)
preprocess_no_copy(inplace) == TRUE

(* preprocess: TRUE iff the object returned is check_obj itself, not a copy. *)
preprocess(inplace) == inplace

check_name(obj, sch) ==
    CoreCheckResult("field_name", "wrong_field_name",
                    sch.name = "None" \/ obj.name = sch.name,
                    scalar_failure_case(obj.name))

(* check_nullable that forgets schema.nullable. *)
check_nullable_always_strict(obj, sch) ==
    LET isna == [i \in 1..Len(obj.rows) |-> obj.rows[i].val = NA]
    IN CoreCheckResult("not_nullable", "series_contains_nulls", ~AnyTrue(isna),
                       reshape_failure_cases(Masked(obj.rows, isna, 1), FALSE))

check_nullable(obj, sch) ==
    LET isna == [i \in 1..Len(obj.rows) |-> obj.rows[i].val = NA]
        passed == sch.nullable \/ ~AnyTrue(isna)
    IN CoreCheckResult("not_nullable", "series_contains_nulls", passed,
                       reshape_failure_cases(Masked(obj.rows, isna, 1), FALSE))

(* Lines 189-199, the branch for pandas objects; the pyspark.pandas branch *)
(* computes the same mask through a frame.                                 *)
check_unique(obj, sch) ==
    IF sch.unique
    THEN LET keep_argument == convert_uniquesettings(sch.report_duplicates)
             duplicates == duplicated(obj.rows, keep_argument)
             failed == Masked(obj.rows, duplicates, 1)
         IN IF AnyTrue(duplicates)
            THEN CoreCheckResult("field_uniqueness", "series_contains_duplicates",
                                 FALSE, reshape_failure_cases(failed, TRUE))
            ELSE CoreCheckResult("field_uniqueness", "series_contains_duplicates",
                                 TRUE, NoFC)
    ELSE CoreCheckResult("field_uniqueness", "series_contains_duplicates", TRUE, NoFC)

(* check_dtype that reshapes the per-element failures with the default    *)
(* ignore_na, losing the null rows.                                        *)
check_dtype_drop_na(obj, sch) ==
    IF sch.dtype # "None"
    THEN IF dtype_check_is_bool(sch.dtype)
         THEN CoreCheckResult("dtype", "wrong_dtype",
                              dtype_check_bool(sch.dtype, obj),
                              scalar_failure_case(obj.dtype))
         ELSE LET dtype_check_results == dtype_check_mask(sch.dtype, obj)
                  notmask == [i \in 1..Len(obj.rows) |-> ~dtype_check_results[i]]
              IN CoreCheckResult("dtype", "wrong_dtype",
                                 AllTrue(dtype_check_results),
                                 reshape_failure_cases(
                                     Masked(obj.rows, notmask, 1), TRUE))
    ELSE CoreCheckResult("dtype", "wrong_dtype", TRUE, NoFC)

check_dtype(obj, sch) ==
    IF sch.dtype # "None"
    THEN IF dtype_check_is_bool(sch.dtype)
         THEN CoreCheckResult("dtype", "wrong_dtype",
                              dtype_check_bool(sch.dtype, obj),
                              scalar_failure_case(obj.dtype))
         ELSE LET dtype_check_results == dtype_check_mask(sch.dtype, obj)
                  notmask == [i \in 1..Len(obj.rows) |-> ~dtype_check_results[i]]
              IN CoreCheckResult("dtype", "wrong_dtype",
                                 AllTrue(dtype_check_results),
                                 reshape_failure_cases(
                                     Masked(obj.rows, notmask, 1), FALSE))
    ELSE CoreCheckResult("dtype", "wrong_dtype", TRUE, NoFC)

(* The core checks with the dtype check moved to the front. *)
CoreChecks_dtype_first ==
    <<"check_dtype", "check_name", "check_nullable", "check_unique">>

(* The loop of validate over the core checks, in its order. *)
CoreChecks == <<"check_name", "check_nullable", "check_unique", "check_dtype">>

core_check(c, obj, sch) ==
    CASE c = "check_name" -> check_name(obj, sch)
      [] c = "check_nullable" -> check_nullable(obj, sch)
      [] c = "check_unique" -> check_unique(obj, sch)
      [] c = "check_dtype" -> check_dtype(obj, sch)


-----------------------------------------------------------------------------
(* The declared checks.  schema.checks is the list of what each check's   *)
(* implementation does on the data of this call:                           *)
(*   "pass"             run_check returns True                             *)
(*   "fail"             run_check raises a SchemaError                     *)
(*   "raise"            the check raises some other exception              *)
(*   "dispatch_cause"   a DispatchError raised from an underlying error    *)
(*   "dispatch_nocause" a DispatchError with no __cause__                  *)
Behaviours == {"pass", "fail", "raise", "dispatch_cause", "dispatch_nocause"}

(* err_str of run_checks: the class of the error that is reported. *)
err_str(b) ==
    CASE b = "raise" -> "ValueError"
      [] b = "dispatch_cause" -> "TypeError"
      [] OTHER -> "None"

Step(name, index) == [step |-> name, index |-> index]

-----------------------------------------------------------------------------
(* Inputs. *)

Names == {"None", "col", "other"}
SchemaDtypes == {"None", "int64", "elem"}
ReportDuplicates == {"exclude_first", "exclude_last", "all"}

Schemas(names, keeps, checklists) ==
    [name : names, dtype : SchemaDtypes, nullable : BOOLEAN, unique : BOOLEAN,
     report_duplicates : keeps, coerce : BOOLEAN, checks : checklists]

ObjectsOf(values, n) ==
    {MkObj(p[1], p[2]) : p \in
        {q \in SeqsUpTo(values, n) \X {"int64", "object"} : q[2] \in Dtypes(q[1])}}

OptN == {NONE, SubN}

Options(heads, tails, samples, seeds, inplaces) ==
    [head : heads, tail : tails, sample : samples, random_state : seeds,
     lazy : BOOLEAN, inplace : inplaces]

NoResult == CoreCheckResult("None", "None", TRUE, NoFC)

Idle(o) ==
    /\ check_obj = o
    /\ aliased = FALSE
    /\ handler = [lazy |-> FALSE, collected_errors |-> <<>>]
    /\ field_sub = o
    /\ check_sub = o
    /\ core_idx = 1
    /\ check_idx = 1
    /\ check_results = <<>>
    /\ trace = <<>>
    /\ outcome = "running"
    /\ raised = NoError
    /\ result = NoResult

(* validate entered with the default options but lazy: columns of nulls   *)
(* and integers, any schema with up to MaxChecks declared checks.          *)
Init ==
    /\ schema \in Schemas({"col", "other"}, {"exclude_first"},
                          SeqsUpTo(Behaviours, MaxChecks))
    /\ opts \in Options({NONE}, {NONE}, {NONE}, {NONE}, {FALSE})
    /\ caller_obj \in ObjectsOf({NA, "1"}, MaxLen)
    /\ pc = "start"
    /\ Idle(caller_obj)

(* validate entered with every combination of the options, on schemas      *)
(* with at most one declared check.  sample(n) needs n rows, and           *)
(* random_state is read only when sample is given.                         *)
InitOptions ==
    /\ schema \in Schemas({"col", "other"}, {"exclude_first"},
                          {<<>>, <<"pass">>, <<"fail">>, <<"dispatch_nocause">>})
    /\ opts \in Options(OptN, OptN, OptN, {NONE, Seed}, BOOLEAN)
    /\ caller_obj \in ObjectsOf({NA, "1"}, MaxLen)
    /\ opts.sample # NONE => opts.sample <= Len(caller_obj.rows)
    /\ opts.random_state # NONE => opts.sample # NONE
    /\ pc = "start"
    /\ Idle(caller_obj)

(* The core checks on their own: any column, any schema. *)
InitCore ==
    /\ schema \in {sc \in Schemas(Names, ReportDuplicates, {<<>>}) : ~sc.coerce}
    /\ opts \in {o \in Options({NONE}, {NONE}, {NONE}, {NONE}, {FALSE}) : o.lazy}
    /\ caller_obj \in ObjectsOf(CoreVals, MaxCoreLen)
    /\ pc = "pure"
    /\ Idle(caller_obj)

-----------------------------------------------------------------------------
(* validate, statement by statement. *)

(* An exception leaves validate. *)
Raise(cls, err) ==
    /\ outcome' = cls
    /\ raised' = err
    /\ pc' = "done"

(* Lines 50-51: the error handler, and preprocess. *)
Preprocess ==
    /\ pc = "start"
    /\ handler' = [lazy |-> opts.lazy, collected_errors |-> <<>>]
    /\ aliased' = preprocess(opts.inplace)
    /\ check_obj' = caller_obj
    /\ trace' = Append(trace, Step("preprocess", NONE))
    /\ pc' = IF schema.coerce THEN "coerce" ELSE "subsample"
    /\ UNCHANGED <<schema, opts, caller_obj, field_sub, check_sub, core_idx,
                   check_idx, check_results, outcome, raised, result>>

(* pandera accessor: add_schema records the schema on the object itself. *)
add_schema(obj) == [obj EXCEPT !.attached = "schema"]

(* ArraySchemaBackend.coerce_dtype: check_obj itself when there is nothing *)
(* to coerce to, the coerced object on success (a new object), and on a    *)
(* ParserError a SchemaError built without a reason_code.                  *)
coerce_dtype(obj, sch) ==
    IF sch.dtype = "None" \/ ~sch.coerce
    THEN [raises |-> FALSE, obj |-> obj, new |-> FALSE, exc |-> NoError]
    ELSE IF coerce_failures(obj) = <<>>
    THEN [raises |-> FALSE, obj |-> try_coerce(sch.dtype, obj), new |-> TRUE,
          exc |-> NoError]
    ELSE [raises |-> TRUE, obj |-> obj, new |-> FALSE,
          exc |-> SchemaError(DefaultReasonCode, "coerce_dtype",
                              reshape_failure_cases(coerce_failures(obj), FALSE),
                              NONE)]

(* SeriesSchemaBackend.coerce_dtype: the schema is recorded on check_obj   *)
(* before the coercion and on its result after it.                         *)
series_coerce_dtype(obj, sch) ==
    LET tagged == add_schema(obj)
        r == coerce_dtype(tagged, sch)
    IN [raises |-> r.raises, tagged |-> tagged, new |-> r.new, exc |-> r.exc,
        obj |-> IF r.raises THEN tagged ELSE add_schema(r.obj)]

(* Lines 53-59: the coercion, and the collection of its SchemaError. *)
Coerce ==
    /\ pc = "coerce"
    /\ trace' = Append(trace, Step("coerce_dtype", NONE))
    /\ LET r == series_coerce_dtype(check_obj, schema)
           ce == collect_error(handler, r.exc.reason_code, r.exc)
       IN /\ caller_obj' = IF aliased THEN r.tagged ELSE caller_obj
          /\ check_obj' = r.obj
          /\ aliased' = (aliased /\ ~r.new)
          /\ IF ~r.raises
             THEN /\ pc' = "subsample"
                  /\ UNCHANGED <<handler, outcome, raised>>
             ELSE IF ce.raises
             THEN Raise("SchemaError", r.exc) /\ UNCHANGED handler
             ELSE /\ handler' = ce.handler
                  /\ pc' = "subsample"
                  /\ UNCHANGED <<outcome, raised>>
    /\ UNCHANGED <<schema, opts, field_sub, check_sub, core_idx, check_idx,
                   check_results, result>>

(* Lines 61-75: the two calls of subsample. *)
Subsample ==
    /\ pc = "subsample"
    /\ \E f \in subsample(check_obj, opts), c \in subsample(check_obj, opts) :
          /\ field_sub' = f
          /\ check_sub' = c
    /\ trace' = Append(trace, Step("subsample", NONE))
    /\ pc' = "core"
    /\ core_idx' = 1
    /\ UNCHANGED <<schema, opts, caller_obj, check_obj, aliased, handler,
                   check_idx, check_results, outcome, raised, result>>

AfterCore == IF Len(schema.checks) = 0 THEN "finish" ELSE "checks"

(* Lines 78-96: one iteration of the loop over the core checks. *)
RunCoreCheck ==
    /\ pc = "core"
    /\ LET c == CoreChecks[core_idx]
           check_result == core_check(c, field_sub, schema)
           err == SchemaError(check_result.reason_code, check_result.check,
                              check_result.failure_cases, NONE)
           ce == collect_error(handler, check_result.reason_code, err)
           next == IF core_idx = Len(CoreChecks) THEN AfterCore ELSE "core"
       IN /\ result' = check_result
          /\ trace' = Append(trace, Step(c, NONE))
          /\ core_idx' = core_idx + 1
          /\ IF check_result.passed
             THEN /\ pc' = next
                  /\ UNCHANGED <<handler, outcome, raised>>
             ELSE IF ce.raises
             THEN Raise("SchemaError", err) /\ UNCHANGED handler
             ELSE /\ handler' = ce.handler
                  /\ pc' = next
                  /\ UNCHANGED <<outcome, raised>>
    /\ check_idx' = 1
    /\ UNCHANGED <<schema, opts, caller_obj, check_obj, aliased, field_sub,
                   check_sub, check_results>>

(* Lines 248-284: one iteration of run_checks' loop; check_index is        *)
(* check_idx - 1.                                                          *)
RunDeclaredCheck ==
    /\ pc = "checks"
    /\ LET b == schema.checks[check_idx]
           check_index == check_idx - 1
           next == IF check_idx = Len(schema.checks) THEN "finish" ELSE "checks"
           failed == SchemaError("dataframe_check", "check", NoFC, check_index)
           wrapped == SchemaError(DefaultReasonCode, "check",
                                  scalar_failure_case(err_str(b)), check_index)
           err == IF b = "fail" THEN failed ELSE wrapped
           ce == collect_error(handler,
                               IF b = "fail" THEN "dataframe_check" ELSE "check_error",
                               err)
       IN /\ trace' = Append(trace, Step("run_check", check_index))
          /\ check_idx' = check_idx + 1
          /\ CASE b = "pass" ->
                  /\ check_results' = Append(check_results, TRUE)
                  /\ pc' = next
                  /\ UNCHANGED <<handler, outcome, raised>>
               [] b = "dispatch_nocause" ->
                  \* err = err.__cause__ is None: err.args raises AttributeError
                  /\ Raise("AttributeError", NoError)
                  /\ UNCHANGED <<handler, check_results>>
               [] OTHER ->
                  /\ UNCHANGED check_results
                  /\ IF ce.raises
                     THEN Raise("SchemaError", err) /\ UNCHANGED handler
                     ELSE /\ handler' = ce.handler
                          /\ pc' = next
                          /\ UNCHANGED <<outcome, raised>>
    /\ UNCHANGED <<schema, opts, caller_obj, check_obj, aliased, field_sub,
                   check_sub, core_idx, result>>

SchemaErrors(schema_errors) ==
    [cls |-> "SchemaErrors", reason_code |-> "None", check |-> "None",
     failure_cases |-> NoFC, check_index |-> Len(schema_errors)]

(* Lines 101-109: the end of validate. *)
Finish ==
    /\ pc = "finish"
    /\ trace' = Append(trace, Step("finish", NONE))
    /\ IF \E i \in 1..Len(check_results) : ~check_results[i]
       THEN Raise("AssertionError", NoError)
       ELSE IF handler.lazy /\ handler.collected_errors # <<>>
       THEN Raise("SchemaErrors", SchemaErrors(handler.collected_errors))
       ELSE /\ outcome' = "returned"
            /\ pc' = "done"
            /\ UNCHANGED raised
    /\ UNCHANGED <<schema, opts, caller_obj, check_obj, aliased, handler,
                   field_sub, check_sub, core_idx, check_idx, check_results,
                   result>>

Next ==
    \/ Preprocess
    \/ Coerce
    \/ Subsample
    \/ RunCoreCheck
    \/ RunDeclaredCheck
    \/ Finish

Spec == Init /\ [][Next]_vars

SpecOptions == InitOptions /\ [][Next]_vars

-----------------------------------------------------------------------------
(* Each core check applied on its own to a column. *)

Apply(c) ==
    /\ pc = "pure"
    /\ result' = core_check(c, check_obj, schema)
    /\ trace' = <<Step(c, NONE)>>
    /\ UNCHANGED <<schema, opts, caller_obj, check_obj, aliased, handler,
                   field_sub, check_sub, core_idx, check_idx, check_results,
                   pc, outcome, raised>>

ApplyCheckName == Apply("check_name")
ApplyCheckNullable == Apply("check_nullable")
ApplyCheckUnique == Apply("check_unique")
ApplyCheckDtype == Apply("check_dtype")

NextCore ==
    \/ ApplyCheckName
    \/ ApplyCheckNullable
    \/ ApplyCheckUnique
    \/ ApplyCheckDtype

SpecCore == InitCore /\ [][NextCore]_vars

-----------------------------------------------------------------------------
(* Vocabulary of the properties. *)

Ran(name) == \E i \in 1..Len(trace) : trace[i].step = name

Count(name) == Cardinality({i \in 1..Len(trace) : trace[i].step = name})

LastStep == trace[Len(trace)].step

Collected == handler.collected_errors

CollectedWith(code) == {i \in 1..Len(Collected) : Collected[i].reason_code = code}

NoSubsampling == opts.head = NONE /\ opts.tail = NONE /\ opts.sample = NONE

(* The column the core checks are given: field_obj_subsample once it is    *)
(* computed; before that, with no subsampling asked, check_obj itself.     *)
FieldView == IF Ran("subsample") THEN field_sub ELSE check_obj

(* The structural checks in the order the specification fixes, and what  *)
(* it means for each to fail on a column.                                  *)
StructuralOrder == <<"check_name", "check_nullable", "check_unique", "check_dtype">>

Repeated(rows) == \E i, j \in 1..Len(rows) : i # j /\ rows[i].val = rows[j].val

DtypeMismatch(obj) ==
    IF schema.dtype = "int64" THEN obj.dtype # "int64"
    ELSE \E i \in 1..Len(obj.rows) : obj.rows[i].val \notin Ints

Fails(c, obj) ==
    CASE c = "check_name" -> schema.name # "None" /\ obj.name # schema.name
      [] c = "check_nullable" ->
            ~schema.nullable /\ \E i \in 1..Len(obj.rows) : obj.rows[i].val = NA
      [] c = "check_unique" -> schema.unique /\ Repeated(obj.rows)
      [] c = "check_dtype" -> schema.dtype # "None" /\ DtypeMismatch(obj)

ReasonOf(c) ==
    CASE c = "check_name" -> "wrong_field_name"
      [] c = "check_nullable" -> "series_contains_nulls"
      [] c = "check_unique" -> "series_contains_duplicates"
      [] c = "check_dtype" -> "wrong_dtype"

Failing(obj) == {i \in 1..Len(StructuralOrder) : Fails(StructuralOrder[i], obj)}

FirstFailing(obj) == CHOOSE i \in Failing(obj) : \A j \in Failing(obj) : i <= j

(* The steps of a whole call, in the order the specification gives. *)
FullOrder ==
    <<Step("preprocess", NONE)>>
    \o (IF schema.coerce THEN <<Step("coerce_dtype", NONE)>> ELSE <<>>)
    \o <<Step("subsample", NONE), Step("check_name", NONE),
         Step("check_nullable", NONE), Step("check_unique", NONE),
         Step("check_dtype", NONE)>>
    \o [k \in 1..Len(schema.checks) |-> Step("run_check", k - 1)]
    \o <<Step("finish", NONE)>>

IsPrefix(a, b) == Len(a) <= Len(b) /\ SubSeq(b, 1, Len(a)) = a

-----------------------------------------------------------------------------
(* C1 as stated: in eager mode, whenever one or more structural checks    *)
(* fail on the data, validate ends with the error of the first failing     *)
(* structural check in the order name, nullable, unique, dtype.            *)
C1_FirstStructuralErrorAlways ==
    (pc = "done" /\ ~opts.lazy /\ (Ran("subsample") \/ NoSubsampling)
        /\ Failing(FieldView) # {})
    => (outcome = "SchemaError"
        /\ raised.reason_code = ReasonOf(StructuralOrder[FirstFailing(FieldView)]))

(* C1 amended: in eager mode, when the call reaches the structural checks *)
(* (coercion was not asked for or did not fail) and one or more of them    *)
(* fail on the selected rows, validate ends with the single error of the   *)
(* first failing one; that check is the last step executed, so no later    *)
(* structural check and no declared check runs.                            *)
C1_FirstStructuralError ==
    (pc = "done" /\ ~opts.lazy /\ Ran("subsample") /\ Failing(field_sub) # {})
    => LET first == StructuralOrder[FirstFailing(field_sub)]
       IN /\ outcome = "SchemaError"
          /\ raised.cls = "SchemaError"
          /\ raised.reason_code = ReasonOf(first)
          /\ Collected = <<>>
          /\ LastStep = first
          /\ Count(first) = 1
          /\ ~Ran("run_check")
          /\ ~Ran("finish")
          /\ \A j \in (FirstFailing(field_sub) + 1)..Len(StructuralOrder) :
                ~Ran(StructuralOrder[j])

(* An eager call ended by the nulls error although the dtype is wrong too. *)
C1_Witness ==
    /\ pc = "done" /\ ~opts.lazy
    /\ schema.checks # <<>>
    /\ Failing(field_sub) = {2, 4}
    /\ raised.reason_code = "series_contains_nulls"

-----------------------------------------------------------------------------
(* C2 as stated: in lazy mode nothing is raised while the pipeline runs;  *)
(* validate ends either by raising the aggregate SchemaErrors, exactly     *)
(* when errors were collected, or by returning the data; a column with a   *)
(* null while non-nullable and a duplicate while unique gives an aggregate *)
(* holding both series_contains_nulls and series_contains_duplicates.      *)
C2_LazyAggregates ==
    opts.lazy =>
        /\ outcome \in {"running", "returned", "SchemaErrors"}
        /\ pc = "done" => (outcome = "SchemaErrors" <=> Collected # <<>>)
        /\ (pc = "done" /\ {2, 3} \subseteq Failing(field_sub)) =>
              /\ outcome = "SchemaErrors"
              /\ CollectedWith("series_contains_nulls") # {}
              /\ CollectedWith("series_contains_duplicates") # {}

-----------------------------------------------------------------------------
(* C3 as stated: when schema.coerce is set and coercion fails, exactly    *)
(* one error with reason code "coerce_dtype" is collected and the call     *)
(* goes on with the later steps.                                           *)
C3_CoerceReasonCode ==
    (opts.lazy /\ pc = "subsample" /\ schema.coerce /\ schema.dtype # "None"
        /\ coerce_failures(check_obj) # <<>>)
    => (Len(Collected) = 1 /\ Collected[1].reason_code = "coerce_dtype")

-----------------------------------------------------------------------------
(* The behaviours in which a check raises something that is no SchemaError. *)
Raising == {"raise", "dispatch_cause", "dispatch_nocause"}

(* C4 as stated: under lazy, a declared check that raises an error that   *)
(* is not a SchemaError is collected as exactly one check_error, the error *)
(* does not leave validate, and the later declared checks still run.       *)
C4_CheckErrorCollected ==
    (opts.lazy /\ pc = "done") =>
        \A k \in 1..Len(schema.checks) :
            (schema.checks[k] \in Raising /\ Step("run_check", k - 1) \in
                {trace[i] : i \in 1..Len(trace)})
            => /\ Cardinality({i \in CollectedWith("check_error") :
                                  Collected[i].error.check_index = k - 1}) = 1
               /\ outcome \in {"returned", "SchemaErrors"}
               /\ \A j \in k..Len(schema.checks) :
                     Step("run_check", j - 1) \in {trace[i] : i \in 1..Len(trace)}

-----------------------------------------------------------------------------
(* The rows of a column that do not conform to the schema's dtype:        *)
(* all of them when the whole column has the wrong dtype.                  *)
NonConforming(obj) ==
    IF schema.dtype = "int64" THEN IndexSet(obj.rows)
    ELSE {obj.rows[i].index : i \in {j \in 1..Len(obj.rows) : obj.rows[j].val \notin Ints}}

ListsRows(fc, idx) == fc.kind = "rows" /\ IndexSet(fc.rows) = idx

(* The wrong_dtype errors validate has yielded: raised, or collected. *)
WrongDtypeErrors ==
    {Collected[i].error : i \in CollectedWith("wrong_dtype")}
    \cup (IF outcome = "SchemaError" /\ raised.reason_code = "wrong_dtype"
          THEN {raised} ELSE {})

(* C5 as stated: with coerce=false and a declared dtype the data does not *)
(* match, validation yields exactly one wrong_dtype error whose failure    *)
(* cases list every non-conforming row index.                              *)
C5_WrongDtypeRows ==
    (pc = "done" /\ ~schema.coerce /\ schema.dtype # "None"
        /\ DtypeMismatch(caller_obj))
    => /\ Cardinality(WrongDtypeErrors) = 1
       /\ Cardinality(CollectedWith("wrong_dtype")) <= 1
       /\ \A e \in WrongDtypeErrors :
             ListsRows(e.failure_cases, NonConforming(caller_obj))

(* C5 amended: with coerce=false and a declared dtype, once check_dtype   *)
(* has run on selected rows that do not match, exactly one wrong_dtype     *)
(* error exists (collected under lazy, raised under eager); its failure    *)
(* cases are the non-conforming selected rows for a per-element result and *)
(* the single scalar case of the column's dtype for a boolean result.      *)
C5_WrongDtypeCases ==
    (Ran("check_dtype") /\ ~schema.coerce /\ schema.dtype # "None"
        /\ DtypeMismatch(field_sub))
    => /\ Cardinality(WrongDtypeErrors) = 1
       /\ Cardinality(CollectedWith("wrong_dtype")) = (IF opts.lazy THEN 1 ELSE 0)
       /\ ~opts.lazy => (pc = "done" /\ outcome = "SchemaError" /\ LastStep = "check_dtype")
       /\ \A e \in WrongDtypeErrors :
             IF schema.dtype = "int64"
             THEN e.failure_cases = scalar_failure_case(field_sub.dtype)
             ELSE /\ ListsRows(e.failure_cases, NonConforming(field_sub))
                  /\ Len(e.failure_cases.rows) = Cardinality(NonConforming(field_sub))

(* A lazy call in which the per-element dtype check fails on two rows. *)
C5_Witness ==
    /\ pc = "done" /\ opts.lazy /\ ~schema.coerce /\ schema.dtype = "elem"
    /\ Cardinality(NonConforming(field_sub)) = 2
    /\ Cardinality(WrongDtypeErrors) = 1

-----------------------------------------------------------------------------
(* The rows a keep policy reports as duplicates. *)
Occurrences(rows, v) == {i \in 1..Len(rows) : rows[i].val = v}

Min(S) == CHOOSE x \in S : \A y \in S : x <= y
Max(S) == CHOOSE x \in S : \A y \in S : x >= y

ReportedDuplicates(rows, policy) ==
    {rows[i].index : i \in
        {j \in 1..Len(rows) :
            LET occ == Occurrences(rows, rows[j].val)
            IN /\ Cardinality(occ) > 1
               /\ policy = "exclude_first" => j # Min(occ)
               /\ policy = "exclude_last" => j # Max(occ)}}

(* C6 as stated: with schema.unique set check_unique passes iff no value  *)
(* occurs more than once, and otherwise its failure cases are exactly the  *)
(* rows the keep policy reports: every occurrence but the first            *)
(* (exclude_first), but the last (exclude_last), or every occurrence       *)
(* (all) of a repeated value; with unique unset it always passes.          *)
C6_UniqueFailureCases ==
    (pc = "pure" /\ trace = <<Step("check_unique", NONE)>>)
    => LET rows == check_obj.rows
           repeated == \E i \in 1..Len(rows) : Cardinality(Occurrences(rows, rows[i].val)) > 1
       IN /\ result.passed <=> (~schema.unique \/ ~repeated)
          /\ ~result.passed =>
                ListsRows(result.failure_cases,
                          ReportedDuplicates(rows, schema.report_duplicates))

-----------------------------------------------------------------------------
(* C7: with inplace=false no step of validate changes the caller's        *)
(* object, and check_obj is the caller's own object only under             *)
(* inplace=true.                                                           *)
C7_CallerUntouched ==
    /\ [](aliased => opts.inplace)
    /\ [][~opts.inplace => caller_obj' = caller_obj]_vars

(* A call without inplace whose coercion failed and tagged check_obj. *)
C7_Witness ==
    /\ pc = "done" /\ ~opts.inplace /\ schema.coerce
    /\ CollectedWith(DefaultReasonCode) # {}
    /\ check_obj.attached = "schema"
    /\ caller_obj.attached = "None"

-----------------------------------------------------------------------------
(* C8: the steps of a call are always a prefix of preprocess, coercion    *)
(* (once, only if schema.coerce), subsample, name, nullable, unique,       *)
(* dtype, the declared checks in declaration order, finish; under lazy     *)
(* the four structural checks are all run, each once, whatever failed.     *)
C8_FixedOrder ==
    /\ IsPrefix(trace, FullOrder)
    /\ Count("coerce_dtype") <= 1
    /\ (opts.lazy /\ pc \in {"checks", "finish", "done"}) =>
          \A i \in 1..Len(StructuralOrder) : Count(StructuralOrder[i]) = 1
    /\ Ran("run_check") =>
          \A i \in 1..Len(StructuralOrder) : Count(StructuralOrder[i]) = 1

(* A lazy call whose coercion and name check failed and that still ran    *)
(* every structural check and two declared checks.                         *)
C8_Witness ==
    /\ pc = "done" /\ opts.lazy
    /\ CollectedWith(DefaultReasonCode) # {}
    /\ CollectedWith("wrong_field_name") # {}
    /\ Count("run_check") = 2
    /\ trace = FullOrder

-----------------------------------------------------------------------------
(* C9 as stated: the rows selected for the field-level view and for the   *)
(* whole-object view are the same, for every combination of head, tail,    *)
(* sample and random_state.                                                *)
C9_SameRows ==
    Ran("subsample") => IndexSet(field_sub.rows) = IndexSet(check_sub.rows)

-----------------------------------------------------------------------------
(* C10 as stated: a failed result of check_nullable, check_unique or a    *)
(* per-element check_dtype carries a non-empty collection of failure       *)
(* cases.                                                                  *)
C10_FailureCasesNonEmpty ==
    (pc = "pure" /\ trace # <<>> /\ ~result.passed
        /\ (trace[1].step \in {"check_nullable", "check_unique"}
            \/ (trace[1].step = "check_dtype" /\ ~dtype_check_is_bool(schema.dtype))))
    => (result.failure_cases.kind = "rows" /\ result.failure_cases.rows # <<>>)

====
